---- MODULE Spec2Model ----
(***************************************************************************)
(* Model of the wikitext template instantiation engine of                  *)
(* src/src/template.rs (Templates::get, Templates::instantiate,            *)
(* Templates::reparse_table_cells).                                        *)
(*                                                                         *)
(* A string is a sequence of tokens: a token is a word or one of the       *)
(* markup delimiters.  A node of the tree (WikitextSimplifiedNode) is a    *)
(* record with a "type" field.                                             *)
(***************************************************************************)
EXTENDS Integers, Sequences, FiniteSets, TLC

(***************************************************************************)
(* Strings                                                                 *)
(***************************************************************************)

\* str::to_lowercase / eq_ignore_ascii_case on one token of the alphabet.
LowerTok(t) ==
    CASE t = "SUBPAGENAME" -> "subpagename"
      [] t = "SubPageName" -> "subpagename"
      [] t = "Greeting"    -> "greeting"
      [] t = "Wrapper"     -> "wrapper"
      [] t = "Echo"        -> "echo"
      [] t = "Cell"        -> "cell"
      [] t = "Row"         -> "row"
      [] t = "Tab"         -> "tab"
      [] t = "TabArg"      -> "tabarg"
      [] t = "Plain"       -> "plain"
      [] t = "Magic"       -> "magic"
      [] t = "Loop"        -> "loop"
      [] t = "Ping"        -> "ping"
      [] t = "Pong"        -> "pong"
      [] t = "Missing"     -> "missing"
      [] t = "Broken"      -> "broken"
      [] t = "Lua"         -> "lua"
      [] t = "Name"        -> "name"
      [] t = "Twice"       -> "twice"
      [] t = "Sub"         -> "sub"
      [] t = "My"          -> "my"
      [] t = "Page"        -> "page"
      [] t = "Two"         -> "two"
      [] t = "None"        -> "none"
      [] t = "Pair"        -> "pair"
      [] t = "One"         -> "one"
      [] OTHER             -> t

ToLowercase(s) == [i \in DOMAIN s |-> LowerTok(s[i])]

\* str::replace(from, to) for one-token patterns.
ReplaceTok(s, from, to) == [i \in DOMAIN s |-> IF s[i] = from THEN to ELSE s[i]]

\* str::eq_ignore_ascii_case
EqIgnoreAsciiCase(a, b) == ToLowercase(a) = ToLowercase(b)

\* str::contains(pat) for a pattern that is one delimiter: the pattern occurs
\* when a token is that delimiter or a longer delimiter that holds it.
Holds(tok, pat) ==
    \/ tok = pat
    \/ pat = "{{" /\ tok = "{{{"
    \/ pat = "''" /\ tok = "'''"

Contains(s, pat) == \E i \in DOMAIN s : Holds(s[i], pat)

(***************************************************************************)
(* Node model (WikitextSimplifiedNode, TemplateParameter)                  *)
(***************************************************************************)

Text(s)            == [type |-> "Text", text |-> s]
Fragment(ch)       == [type |-> "Fragment", children |-> ch]
Bold(ch)           == [type |-> "Bold", children |-> ch]
Link(title, txt)   == [type |-> "Link", text |-> txt, title |-> title]
Template(n, ps)    == [type |-> "Template", name |-> n, parameters |-> ps]
Param(n, v)        == [name |-> n, value |-> v]
\* default: Option<Vec<Node>>
ParameterUse(n, hasDefault, d) ==
    [type |-> "TemplateParameterUse", name |-> n, hasDefault |-> hasDefault, default |-> d]
\* attributes: Option<Vec<Node>>
Cell(isHeader, hasAttrs, attrs, content) ==
    [isHeader |-> isHeader, content |-> content, hasAttributes |-> hasAttrs, attributes |-> attrs]
Caption(hasAttrs, attrs, content) ==
    [content |-> content, hasAttributes |-> hasAttrs, attributes |-> attrs]
Row(attrs, cells)  == [attributes |-> attrs, cells |-> cells]
Table(attrs, caps, rows) ==
    [type |-> "Table", attributes |-> attrs, rows |-> rows, captions |-> caps]

(***************************************************************************)
(* Serializer: WikitextSimplifiedNode::to_wikitext                         *)
(***************************************************************************)

RECURSIVE ToWikitext(_)
RECURSIVE SerSeq(_)
RECURSIVE SerParams(_)
RECURSIVE SerCells(_)
RECURSIVE SerRows(_)
RECURSIVE SerCaptions(_)

SerSeq(nodes) ==
    IF nodes = <<>> THEN <<>> ELSE ToWikitext(Head(nodes)) \o SerSeq(Tail(nodes))

SerParams(ps) ==
    IF ps = <<>> THEN <<>>
    ELSE <<"|">> \o Head(ps).name \o <<"=">> \o Head(ps).value \o SerParams(Tail(ps))

SerCells(cells) ==
    IF cells = <<>> THEN <<>>
    ELSE LET c == Head(cells) IN
         <<IF c.isHeader THEN "!" ELSE "|">>
         \o (IF c.hasAttributes THEN SerSeq(c.attributes) \o <<"|">> ELSE <<>>)
         \o SerSeq(c.content) \o <<"\n">> \o SerCells(Tail(cells))

SerRows(rows) ==
    IF rows = <<>> THEN <<>>
    ELSE <<"|-">> \o SerSeq(Head(rows).attributes) \o <<"\n">>
         \o SerCells(Head(rows).cells) \o SerRows(Tail(rows))

SerCaptions(caps) ==
    IF caps = <<>> THEN <<>>
    ELSE LET c == Head(caps) IN
         <<"|+">>
         \o (IF c.hasAttributes THEN SerSeq(c.attributes) \o <<"|">> ELSE <<>>)
         \o SerSeq(c.content) \o <<"\n">> \o SerCaptions(Tail(caps))

ToWikitext(node) ==
    CASE node.type = "Text"     -> node.text
      [] node.type = "Fragment" -> SerSeq(node.children)
      [] node.type = "Bold"     -> <<"'''">> \o SerSeq(node.children) \o <<"'''">>
      [] node.type = "Link"     ->
            <<"[[">> \o node.title
            \o (IF node.text = node.title THEN <<>> ELSE <<"|">> \o node.text)
            \o <<"]]">>
      [] node.type = "Template" ->
            <<"{{">> \o node.name \o SerParams(node.parameters) \o <<"}}">>
      [] node.type = "TemplateParameterUse" ->
            <<"{{{">> \o node.name
            \o (IF node.hasDefault THEN <<"|">> \o SerSeq(node.default) ELSE <<>>)
            \o <<"}}}">>
      [] node.type = "Table"    ->
            <<"{|">> \o SerSeq(node.attributes) \o <<"\n">>
            \o SerCaptions(node.captions) \o SerRows(node.rows) \o <<"|}">>

(***************************************************************************)
(* Grammar parser: wikitext_simplified::parse_and_simplify_wikitext        *)
(***************************************************************************)

\* A construct the simplifier has no node for: the parser rejects the text.
Unsupported == "<x>"

IsOpen(t)  == t \in {"{{", "{{{", "[["}
IsClose(t) == t \in {"}}", "}}}", "]]"}
Closer(t)  == CASE t = "{{" -> "}}" [] t = "{{{" -> "}}}" [] t = "[[" -> "]]" [] OTHER -> ""

\* Index of the token closing the construct opened before position j (depth d
\* open constructs at j), or 0.
RECURSIVE ScanClose(_, _, _)
ScanClose(s, j, d) ==
    IF j > Len(s) THEN 0
    ELSE IF IsOpen(s[j]) THEN ScanClose(s, j + 1, d + 1)
    ELSE IF IsClose(s[j]) THEN (IF d = 1 THEN j ELSE ScanClose(s, j + 1, d - 1))
    ELSE ScanClose(s, j + 1, d)

\* Index of the first token tok of s at or after j outside any nested
\* construct, or 0.
RECURSIVE FindTop(_, _, _, _)
FindTop(s, tok, j, d) ==
    IF j > Len(s) THEN 0
    ELSE IF d = 0 /\ s[j] = tok THEN j
    ELSE IF IsOpen(s[j]) THEN FindTop(s, tok, j + 1, d + 1)
    ELSE IF IsClose(s[j]) /\ d > 0 THEN FindTop(s, tok, j + 1, d - 1)
    ELSE FindTop(s, tok, j + 1, d)

\* Index of the first token tok of s at or after j, or 0.
RECURSIVE FindTok(_, _, _)
FindTok(s, tok, j) ==
    IF j > Len(s) THEN 0 ELSE IF s[j] = tok THEN j ELSE FindTok(s, tok, j + 1)

\* s cut at every top-level tok.
RECURSIVE SplitTop(_, _)
SplitTop(s, tok) ==
    LET k == FindTop(s, tok, 1, 0) IN
    IF k = 0 THEN <<s>>
    ELSE <<SubSeq(s, 1, k - 1)>> \o SplitTop(SubSeq(s, k + 1, Len(s)), tok)

\* s cut at every tok.
RECURSIVE SplitAll(_, _)
SplitAll(s, tok) ==
    LET k == FindTok(s, tok, 1) IN
    IF k = 0 THEN <<s>>
    ELSE <<SubSeq(s, 1, k - 1)>> \o SplitAll(SubSeq(s, k + 1, Len(s)), tok)

\* The name of the i-th positional argument.
PositionalName(i) == <<CASE i = 1 -> "1" [] i = 2 -> "2" [] i = 3 -> "3" [] OTHER -> "n">>

\* The arguments of an invocation: name=value, the value kept as raw text.
RECURSIVE ParseParams(_, _)
ParseParams(segs, i) ==
    IF segs = <<>> THEN <<>>
    ELSE LET seg == Head(segs)
             k   == FindTop(seg, "=", 1, 0)
             p   == IF k = 0 THEN Param(PositionalName(i), seg)
                    ELSE Param(SubSeq(seg, 1, k - 1), SubSeq(seg, k + 1, Len(seg)))
         IN <<p>> \o ParseParams(Tail(segs), IF k = 0 THEN i + 1 ELSE i)

\* A text token before already parsed nodes: adjacent text is one Text node.
PrependText(tok, nodes) ==
    IF nodes # <<>> /\ Head(nodes).type = "Text"
    THEN <<Text(<<tok>> \o Head(nodes).text)>> \o Tail(nodes)
    ELSE <<Text(<<tok>>)>> \o nodes

RECURSIVE ParseInline(_)
RECURSIVE ParseTableLines(_, _, _)

\* One cell or caption line after its marker: attributes | content.
CellParts(rest) ==
    LET k == FindTop(rest, "|", 1, 0) IN
    IF k = 0 THEN [content |-> ParseInline(rest), hasAttributes |-> FALSE,
                   attributes |-> <<>>]
    ELSE [content |-> ParseInline(SubSeq(rest, k + 1, Len(rest))), hasAttributes |-> TRUE,
          attributes |-> ParseInline(SubSeq(rest, 1, k - 1))]

\* cells appended to the last row (a first row is implicit).
AddCell(rows, cell) ==
    IF rows = <<>> THEN <<Row(<<>>, <<cell>>)>>
    ELSE LET n == Len(rows) IN
         [rows EXCEPT ![n] = Row(rows[n].attributes, Append(rows[n].cells, cell))]

\* A line without a marker continues the content of the last cell.
AddContinuation(rows, line) ==
    IF rows = <<>> \/ rows[Len(rows)].cells = <<>> THEN rows
    ELSE LET n == Len(rows)
             m == Len(rows[n].cells)
             c == rows[n].cells[m]
             more == ParseInline(<<"\n">> \o line)
         IN [rows EXCEPT ![n] = Row(rows[n].attributes,
                [rows[n].cells EXCEPT ![m] =
                    Cell(c.isHeader, c.hasAttributes, c.attributes, c.content \o more)])]

ParseTableLines(lines, caps, rows) ==
    IF lines = <<>> THEN [rows |-> rows, captions |-> caps]
    ELSE LET line == Head(lines)
             rest == IF line = <<>> THEN <<>> ELSE Tail(line)
         IN
         IF line = <<>> THEN ParseTableLines(Tail(lines), caps, rows)
         ELSE IF Head(line) = "|-"
              THEN ParseTableLines(Tail(lines), caps, Append(rows, Row(ParseInline(rest), <<>>)))
         ELSE IF Head(line) = "|+"
              THEN LET p == CellParts(rest) IN
                   ParseTableLines(Tail(lines),
                       Append(caps, Caption(p.hasAttributes, p.attributes, p.content)), rows)
         ELSE IF Head(line) \in {"|", "!"}
              THEN LET p == CellParts(rest) IN
                   ParseTableLines(Tail(lines), caps,
                       AddCell(rows, Cell(Head(line) = "!", p.hasAttributes,
                                          p.attributes, p.content)))
         ELSE ParseTableLines(Tail(lines), caps, AddContinuation(rows, line))

\* The text between {| and |}.
ParseTable(inner) ==
    LET lines == SplitAll(inner, "\n")
        body  == ParseTableLines(Tail(lines), <<>>, <<>>)
    IN Table(ParseInline(Head(lines)), body.captions, body.rows)

ParseInline(s) ==
    IF s = <<>> THEN <<>>
    ELSE
    LET t == Head(s)
        j == IF IsOpen(t) THEN ScanClose(s, 2, 1) ELSE 0
        closed == j > 0 /\ s[j] = Closer(t)
        inner == SubSeq(s, 2, j - 1)
        after == SubSeq(s, j + 1, Len(s))
    IN
    IF closed /\ t = "{{{" THEN
        LET k == FindTop(inner, "|", 1, 0) IN
        <<IF k = 0 THEN ParameterUse(inner, FALSE, <<>>)
          ELSE ParameterUse(SubSeq(inner, 1, k - 1), TRUE,
                            ParseInline(SubSeq(inner, k + 1, Len(inner))))>>
        \o ParseInline(after)
    ELSE IF closed /\ t = "{{" THEN
        LET segs == SplitTop(inner, "|") IN
        <<Template(Head(segs), ParseParams(Tail(segs), 1))>> \o ParseInline(after)
    ELSE IF closed /\ t = "[[" THEN
        LET k == FindTop(inner, "|", 1, 0) IN
        <<IF k = 0 THEN Link(inner, inner)
          ELSE Link(SubSeq(inner, 1, k - 1), SubSeq(inner, k + 1, Len(inner)))>>
        \o ParseInline(after)
    ELSE IF t = "'''" THEN
        LET k == FindTok(s, "'''", 2)
            e == IF k = 0 THEN Len(s) + 1 ELSE k
        IN <<Bold(ParseInline(SubSeq(s, 2, e - 1)))>>
           \o ParseInline(SubSeq(s, e + 1, Len(s)))
    ELSE IF t = "{|" THEN
        LET k == FindTok(s, "|}", 2)
            e == IF k = 0 THEN Len(s) + 1 ELSE k
        IN <<ParseTable(SubSeq(s, 2, e - 1))>> \o ParseInline(SubSeq(s, e + 1, Len(s)))
    ELSE PrependText(t, ParseInline(Tail(s)))

\* parse_and_simplify_wikitext: Result<Vec<Node>, Error>
ParseAndSimplifyWikitext(s) ==
    IF Contains(s, Unsupported) THEN [nodes |-> <<>>, ok |-> FALSE]
    ELSE [nodes |-> ParseInline(s), ok |-> TRUE]

(***************************************************************************)
(* Tree traversal                                                          *)
(***************************************************************************)

RECURSIVE Flatten(_)
Flatten(ss) == IF ss = <<>> THEN <<>> ELSE Head(ss) \o Flatten(Tail(ss))

\* The node sequences a cell or a caption holds: attributes, content.
CellSlots(c) == <<c.attributes, c.content>>

RowSlots(r) == <<r.attributes>> \o Flatten([i \in DOMAIN r.cells |-> CellSlots(r.cells[i])])

\* The node sequences held by a node, in the order the walks take them.
Slots(node) ==
    CASE node.type \in {"Fragment", "Bold"} -> <<node.children>>
      [] node.type = "Table" ->
            <<node.attributes>>
            \o Flatten([i \in DOMAIN node.captions |-> CellSlots(node.captions[i])])
            \o Flatten([i \in DOMAIN node.rows |-> RowSlots(node.rows[i])])
      [] OTHER -> <<>>

\* Where the slots of row j start, after the slots before the rows.
RECURSIVE RowOffset(_, _)
RowOffset(rows, j) ==
    IF j = 1 THEN 0 ELSE RowOffset(rows, j - 1) + 1 + 2 * Len(rows[j - 1].cells)

\* The node rebuilt around new contents of its slots.
WithSlots(node, slots) ==
    CASE node.type \in {"Fragment", "Bold"} -> [node EXCEPT !.children = slots[1]]
      [] node.type = "Table" ->
            LET base == 1 + 2 * Len(node.captions) IN
            [node EXCEPT
                !.attributes = slots[1],
                !.captions = [i \in DOMAIN node.captions |->
                    [node.captions[i] EXCEPT !.attributes = slots[2 * i],
                                             !.content = slots[2 * i + 1]]],
                !.rows = [j \in DOMAIN node.rows |->
                    LET off == base + RowOffset(node.rows, j) IN
                    [attributes |-> slots[off + 1],
                     cells |-> [m \in DOMAIN node.rows[j].cells |->
                        [node.rows[j].cells[m] EXCEPT
                            !.attributes = slots[off + 2 * m],
                            !.content = slots[off + 2 * m + 1]]]]]]
      [] OTHER -> node

RECURSIVE SeqUnion(_)
SeqUnion(sets) == IF sets = <<>> THEN {} ELSE Head(sets) \cup SeqUnion(Tail(sets))

\* WikitextSimplifiedNode::visit: the kinds of the nodes the visitor is called
\* on, the node itself and its descendants.
RECURSIVE Visit(_)
Visit(node) ==
    LET all == Flatten(Slots(node)) IN
    {node.type} \cup SeqUnion([i \in DOMAIN all |-> Visit(all[i])])

\* The result of a nested call, put in the place of its Template node: the
\* walk of visit_and_replace_mut that put it there does not enter it.
Done(node) == [type |-> "Done", node |-> node]

\* The positions <<slot, index>> of the children of a node, in walk order.
ChildPositions(node) ==
    LET slots == Slots(node) IN
    Flatten([s \in DOMAIN slots |-> [i \in DOMAIN slots[s] |-> <<s, i>>]])

ChildAt(node, pos) == Slots(node)[pos[1]][pos[2]]

NotFound == [found |-> FALSE, path |-> <<>>]

Below(pos, r) == [found |-> TRUE, path |-> <<pos>> \o r.path]

\* The path to the first Template node the walk of visit_and_replace_mut
\* comes to.
RECURSIVE FirstTemplate(_)
RECURSIVE FirstTemplateIn(_, _)
FirstTemplateFrom(node, positions, r) ==
    IF r.found THEN Below(Head(positions), r)
    ELSE FirstTemplateIn(node, Tail(positions))

FirstTemplateIn(node, positions) ==
    IF positions = <<>> THEN NotFound
    ELSE FirstTemplateFrom(node, positions, FirstTemplate(ChildAt(node, Head(positions))))

FirstTemplate(node) ==
    IF node.type = "Template" THEN [found |-> TRUE, path |-> <<>>]
    ELSE FirstTemplateIn(node, ChildPositions(node))

RECURSIVE NodeAt(_, _)
NodeAt(node, path) ==
    IF path = <<>> THEN node ELSE NodeAt(ChildAt(node, Head(path)), Tail(path))

\* The paths to the nodes of a tree.
RECURSIVE WalkPaths(_)
WalkPaths(node) ==
    {<<>>} \cup UNION { { <<ChildPositions(node)[k]>> \o p :
                            p \in WalkPaths(ChildAt(node, ChildPositions(node)[k])) } :
                        k \in DOMAIN ChildPositions(node) }

RECURSIVE PutAt(_, _, _)
PutAt(node, path, new) ==
    IF path = <<>> THEN new
    ELSE LET pos == Head(path) IN
         WithSlots(node,
            [Slots(node) EXCEPT ![pos[1]][pos[2]] = PutAt(@, Tail(path), new)])

\* The tree at the end of a walk: the results of the nested calls in place.
RECURSIVE Unmark(_)
Unmark(node) ==
    IF node.type = "Done" THEN node.node
    ELSE LET slots == Slots(node) IN
         WithSlots(node, [s \in DOMAIN slots |->
                            [i \in DOMAIN slots[s] |-> Unmark(slots[s][i])]])

(***************************************************************************)
(* Template store and parse cache                                          *)
(***************************************************************************)

VARIABLES
    store,      \* the loader's templates: normalized key -> source text
    templates,  \* Templates::templates: the parse cache, key -> tree
    loads,      \* how often the loader was called, per key
    lookups,    \* the keys Templates::get was called for
    pc,         \* "idle", "run" (a call is in progress), "done" (it returned)
                \* or the way the process died
    stack,      \* the frames of the instantiate calls in progress, outermost first
    target,     \* the outermost call's template argument
    parameters, \* its parameters argument
    context,    \* its page_context.sub_page_name, passed to every nested call
    result,     \* the tree the last outermost call returned
    report,     \* what the message of the panic holds, once the process died
    page        \* the tree the caller is converting, while it calls again

vars == <<store, templates, loads, lookups, pc, stack, target, parameters, context,
          result, report, page>>

EmptyMap == [k \in {} |-> 0]

Put(f, k, v) == [x \in DOMAIN f \cup {k} |-> IF x = k THEN v ELSE f[x]]

Count(f, k) == IF k \in DOMAIN f THEN f[k] ELSE 0

\* name.to_lowercase().replace(" ", "_")
NormalizeKey(name) == ReplaceTok(ToLowercase(name), " ", "_")

\* Bytes that are not UTF-8, as a token of a file's content.
NotUtf8 == "<ff fe>"

\* std::fs::read_to_string returns Ok: the bytes of the file are UTF-8.
Readable(content) == \A i \in DOMAIN content : content[i] # NotUtf8

\* TemplateLoader::load of FileSystemLoader; `store` is its lookup, with the
\* content of the file each key leads to.
\* The first Err names the template and its key ("Template not found: {} ->
\* {}"), the second the template and the path of the file ("Failed to load
\* template {} from {}: {}").
LoaderLoad(name) ==
    IF NormalizeKey(name) \notin DOMAIN store
    THEN [name |-> name, content |-> <<>>, ok |-> FALSE, path |-> <<>>,
          key |-> NormalizeKey(name), kind |-> "notfound"]
    ELSE IF ~Readable(store[NormalizeKey(name)].content)
    THEN [name |-> name, content |-> <<>>, ok |-> FALSE, path |-> store[NormalizeKey(name)].path,
          key |-> NormalizeKey(name), kind |-> "unreadable"]
    ELSE [name |-> name, content |-> store[NormalizeKey(name)].content,
          ok |-> TRUE, path |-> store[NormalizeKey(name)].path,
          key |-> NormalizeKey(name), kind |-> "ok"]

\* The state of the machine (m): the variables an action changes.
Failed(m, why) == [m EXCEPT !.pc = why]

NoReport == [kind |-> "none"]

\* A panic with a message.
Reported(m, why, what) == [m EXCEPT !.pc = why, !.report = what]

\* The insert of Templates::get, or the Err of the parser.
Insert(m, key, name, simplified) ==
    IF ~simplified.ok THEN Reported(m, "parseerror", [name |-> name, kind |-> "parse"])
    ELSE [m EXCEPT !.cache = Put(@, key, Fragment(simplified.nodes))]
\* Mutant: a template the store does not hold is taken to be empty.
LoadAndParseLenient(m, key, content) ==
    IF ~content.ok THEN [m EXCEPT !.cache = Put(@, key, Fragment(<<>>))]
    ELSE Insert(m, key, content.name, ParseAndSimplifyWikitext(content.content))

\* The cache miss of Templates::get.
LoadAndParse(m, key, content) ==
    IF ~content.ok /\ content.kind = "notfound"
    THEN Reported(m, "notfound",
                  [name |-> content.name, key |-> content.key, kind |-> "notfound"])
    ELSE IF ~content.ok
    THEN Reported(m, "unreadable",
                  [name |-> content.name, path |-> content.path, kind |-> "unreadable"])
    ELSE Insert(m, key, content.name, ParseAndSimplifyWikitext(content.content))

\* Mutant: get loads and parses on every call.
GetNoCache(m, name) ==
    LoadAndParse(
        [m EXCEPT !.lookups = @ \cup {NormalizeKey(name)},
                  !.loads = Put(@, NormalizeKey(name), Count(@, NormalizeKey(name)) + 1)],
        NormalizeKey(name), LoaderLoad(name))

\* Mutant: a cache hit leaves an empty tree in the cache.
GetHitEmpties(m, name) ==
    IF NormalizeKey(name) \in DOMAIN m.cache
    THEN [m EXCEPT !.lookups = @ \cup {NormalizeKey(name)},
                   !.cache[NormalizeKey(name)] = Fragment(<<>>)]
    ELSE LoadAndParse(
            [m EXCEPT !.lookups = @ \cup {NormalizeKey(name)},
                      !.loads = Put(@, NormalizeKey(name), Count(@, NormalizeKey(name)) + 1)],
            NormalizeKey(name), LoaderLoad(name))

\* Templates::get; on Err the caller's unwrap panics.
Get(m, name) ==
    IF NormalizeKey(name) \in DOMAIN m.cache
    THEN [m EXCEPT !.lookups = @ \cup {NormalizeKey(name)}]
    ELSE LoadAndParse(
            [m EXCEPT !.lookups = @ \cup {NormalizeKey(name)},
                      !.loads = Put(@, NormalizeKey(name), Count(@, NormalizeKey(name)) + 1)],
            NormalizeKey(name), LoaderLoad(name))

(***************************************************************************)
(* Templates::instantiate                                                  *)
(***************************************************************************)

MagicName == <<"subpagename">>

Name(n) == [name |-> n, kind |-> "Name"]
Node(t) == [node |-> t, kind |-> "Node"]

\* What a call that panicked leaves behind: no tree.
NoNode == Text(<<>>)
\* Mutant: the test for being done looks for Template nodes only.
OnlyTemplatesRequired(tree) == "Template" \in Visit(tree)

\* Mutant: the test for being done never finds the tree done.
AlwaysRequired(tree) == TRUE

\* matches!(node, TemplateParameterUse | Template) somewhere in the tree
FurtherInstantiationRequired(tree) ==
    Visit(tree) \cap {"Template", "TemplateParameterUse"} # {}

ContainsTable(tree) == "Table" \in Visit(tree)
\* Mutant: the argument's name is compared without regard to letter case.
RECURSIVE FindParameterIgnoreCase(_, _)
FindParameterIgnoreCase(params, name) ==
    IF params = <<>> THEN [value |-> <<>>, some |-> FALSE]
    ELSE IF EqIgnoreAsciiCase(Head(params).name, name)
         THEN [value |-> Head(params).value, some |-> TRUE]
    ELSE FindParameterIgnoreCase(Tail(params), name)

\* parameters.iter().find(|p| p.name == *name)
RECURSIVE FindParameter(_, _)
FindParameter(params, name) ==
    IF params = <<>> THEN [value |-> <<>>, some |-> FALSE]
    ELSE IF Head(params).name = name THEN [value |-> Head(params).value, some |-> TRUE]
    ELSE FindParameter(Tail(params), name)
\* Mutant: the placeholder's default is taken before the argument.
ParameterValueDefaultFirst(found, node, ctx) ==
    IF node.hasDefault THEN ToWikitext(Fragment(node.default))
    ELSE IF found.some THEN found.value
    ELSE IF EqIgnoreAsciiCase(node.name, <<"subpagename">>) THEN ctx
    ELSE <<>>

\* Mutant: the placeholder's default is taken before the magic value.
ParameterValueDefaultBeforeMagic(found, node, ctx) ==
    IF found.some THEN found.value
    ELSE IF node.hasDefault THEN ToWikitext(Fragment(node.default))
    ELSE IF EqIgnoreAsciiCase(node.name, <<"subpagename">>) THEN ctx
    ELSE <<>>

\* The value of the placeholder: the argument, else the magic value, else the
\* serialized default, else nothing.
ParameterValue(found, node, ctx) ==
    IF found.some THEN found.value
    ELSE IF EqIgnoreAsciiCase(node.name, MagicName) THEN ctx
    ELSE IF node.hasDefault THEN ToWikitext(Fragment(node.default))
    ELSE <<>>
\* Mutant: the default of an unbound placeholder is dropped.
ReplaceParameterUseDropDefault(node, params, ctx) ==
    Text(ParameterValue(FindParameter(params, node.name),
                        [node EXCEPT !.hasDefault = FALSE], ctx))

\* Mutant: an unbound placeholder without default leaves its name behind.
ReplaceParameterUseKeepName(node, params, ctx) ==
    IF ~FindParameter(params, node.name).some /\ ~node.hasDefault
       /\ ~EqIgnoreAsciiCase(node.name, <<"subpagename">>)
    THEN Text(node.name)
    ELSE Text(ParameterValue(FindParameter(params, node.name), node, ctx))
\* Mutant: the value is parsed into nodes when it is substituted.
ReplaceParameterUseParsed(node, params, ctx) ==
    IF ParseAndSimplifyWikitext(
            ParameterValue(FindParameter(params, node.name), node, ctx)).ok
    THEN Fragment(ParseAndSimplifyWikitext(
            ParameterValue(FindParameter(params, node.name), node, ctx)).nodes)
    ELSE Text(ParameterValue(FindParameter(params, node.name), node, ctx))

\* The TemplateParameterUse arm of replace_once.
ReplaceParameterUse(node, params, ctx) ==
    Text(ParameterValue(FindParameter(params, node.name), node, ctx))

\* The TemplateParameterUse arm on every placeholder the walk comes to; the
\* arm calls nothing, so the model takes these replacements together when the
\* walk begins.
RECURSIVE ReplaceParameterUses(_, _, _)
ReplaceParameterUses(node, params, ctx) ==
    IF node.type = "TemplateParameterUse" THEN ReplaceParameterUse(node, params, ctx)
    ELSE LET slots == Slots(node) IN
         WithSlots(node, [s \in DOMAIN slots |->
            [i \in DOMAIN slots[s] |-> ReplaceParameterUses(slots[s][i], params, ctx)]])

\* Mutant: the result of the nested call is inserted as it is, always.
FlattenedNever(res) == res

\* Flatten single-child fragments.
Flattened(res) ==
    IF res.type = "Fragment" /\ Len(res.children) = 1 THEN res.children[1] ELSE res

\* cell_wikitext.contains("[[") || ("'''") || ("''") || ("{{")
HasMarkup(s) ==
    Contains(s, "[[") \/ Contains(s, "'''") \/ Contains(s, "''") \/ Contains(s, "{{")

\* "Extract children from the result"
CellContent(v) == IF v.type = "Fragment" THEN v.children ELSE <<v>>

Prefixed(i, addrs) == [k \in DOMAIN addrs |-> [addrs[k] EXCEPT !.path = <<i>> \o @]]

\* The cells reparse_table_cells comes to, in its order: those of a table that
\* is the node itself or is reached from it through fragments only.
RECURSIVE CellAddrs(_)
CellAddrs(node) ==
    CASE node.type = "Table" ->
            Flatten([j \in DOMAIN node.rows |->
                [c \in DOMAIN node.rows[j].cells |-> [cell |-> c, path |-> <<>>, row |-> j]]])
      [] node.type = "Fragment" ->
            Flatten([i \in DOMAIN node.children |-> Prefixed(i, CellAddrs(node.children[i]))])
      [] OTHER -> <<>>

RECURSIVE TableAt(_, _)
TableAt(node, path) ==
    IF path = <<>> THEN node ELSE TableAt(node.children[Head(path)], Tail(path))

CellAt(tree, a) == TableAt(tree, a.path).rows[a.row].cells[a.cell]

\* Mutant: the cell that was re-parsed swallows the other cells of its row.
RECURSIVE SetContentMerged(_, _, _)
SetContentMerged(node, a, content) ==
    IF a.path = <<>>
    THEN [node EXCEPT !.rows[a.row].cells =
                <<[node.rows[a.row].cells[a.cell] EXCEPT !.content = content]>>]
    ELSE [node EXCEPT !.children[Head(a.path)] =
                SetContentMerged(@, [a EXCEPT !.path = Tail(@)], content)]

RECURSIVE SetContent(_, _, _)
SetContent(node, a, content) ==
    IF a.path = <<>> THEN [node EXCEPT !.rows[a.row].cells[a.cell].content = content]
    ELSE [node EXCEPT !.children[Head(a.path)] =
                SetContent(@, [a EXCEPT !.path = Tail(@)], content)]

\* Frames of instantiate the stack holds before it is exhausted.
MaxDepth == 8

\* Iterations of the table loop the model follows.
MaxLoop == 3

NoWait == [kind |-> "none", at |-> <<>>]

\* The frame of a call of instantiate: its locals and its position.
\*   tree        the local `template`
\*   before      `template` as it was when the last walk of replace_once began
\*   phase       "check", "replace", "branch", "loopcheck" or "fixup"
\*   inLoop      the walk in progress is one of the table loop
\*   wait        what the frame does with the value its callee returns
\*   cells       the cells reparse_table_cells has still to come to
NewFrame(tree, params) ==
    [parameters |-> params, cells |-> <<>>, tree |-> tree, before |-> tree,
     phase |-> "check", inLoop |-> FALSE, iterations |-> 0, wait |-> NoWait]

Top(m) == m.stack[Len(m.stack)]

SetTop(m, f) == [m EXCEPT !.stack[Len(m.stack)] = f]

Pop(m) == [m EXCEPT !.stack = SubSeq(@, 1, Len(@) - 1)]

Push(m, f) == [m EXCEPT !.stack = Append(@, f)]

\* The callee returned v to the frame on top: the Template arm puts it in
\* the tree, reparse_table_cells puts it in the cell, and the call in tail
\* position returns it in turn.
RECURSIVE Return(_, _)
Return(m, v) ==
    IF m.stack = <<>> THEN [m EXCEPT !.pc = "done", !.result = v]
    ELSE CASE Top(m).wait.kind = "tail" -> Return(Pop(m), v)
           [] Top(m).wait.kind = "template" ->
                SetTop(m, [Top(m) EXCEPT
                    !.tree = PutAt(@, Top(m).wait.at, Done(Flattened(v))),
                    !.wait = NoWait])
           [] OTHER ->
                SetTop(m, [Top(m) EXCEPT
                    !.tree = SetContent(@, Top(m).wait.at, CellContent(v)),
                    !.cells = Tail(@),
                    !.wait = NoWait])
\* Mutant: the call takes the tree out of the cache instead of cloning it.
CachedTaken(got, key) ==
    IF got.pc # "run" THEN [node |-> NoNode, m |-> got, early |-> TRUE]
    ELSE [node |-> got.cache[key],
          m |-> [got EXCEPT !.cache[key] = Fragment(<<>>)], early |-> FALSE]

\* Some(tree) once get has run.
Cached(got, key) ==
    IF got.pc # "run" THEN [node |-> NoNode, m |-> got, early |-> TRUE]
    ELSE [node |-> got.cache[key], m |-> got, early |-> FALSE]
\* Mutant: the magic name is looked up like any other name.
ResolveNoMagic(m, tgt, ctx) ==
    IF tgt.kind = "Node" THEN [node |-> tgt.node, m |-> m, early |-> FALSE]
    ELSE Cached(Get(m, tgt.name), NormalizeKey(tgt.name))

\* `let mut template = match template { ... }`: the magic name returns early.
Resolve(m, tgt, ctx) ==
    IF tgt.kind = "Node" THEN [node |-> tgt.node, m |-> m, early |-> FALSE]
    ELSE IF EqIgnoreAsciiCase(tgt.name, MagicName)
         THEN [node |-> Text(ctx), m |-> m, early |-> TRUE]
    ELSE Cached(Get(m, tgt.name), NormalizeKey(tgt.name))

Entered(r, params) ==
    IF r.m.pc # "run" THEN r.m
    ELSE IF r.early THEN Return(r.m, r.node)
    ELSE Push(r.m, NewFrame(r.node, params))
\* Mutant: a depth guard that reports a typed error.
EnterGuarded(m, tgt, params, ctx) ==
    IF Len(m.stack) = MaxDepth
    THEN Reported(m, "overflow", [kind |-> "RecursionLimitExceeded"])
    ELSE Entered(Resolve(m, tgt, ctx), params)

\* A call of instantiate: one more frame, when the stack has room for it.
Enter(m, tgt, params, ctx) ==
    IF Len(m.stack) = MaxDepth THEN Failed(m, "overflow")
    ELSE Entered(Resolve(m, tgt, ctx), params)

\* replace_once begins a walk.
BeginPass(f, ctx) ==
    [f EXCEPT !.before = f.tree,
              !.tree = ReplaceParameterUses(f.tree, f.parameters, ctx),
              !.phase = "replace"]

\* "Check if we're done"
Checked(m, f, ctx) ==
    IF ~FurtherInstantiationRequired(f.tree) THEN Return(Pop(m), f.tree)
    ELSE SetTop(m, BeginPass(f, ctx))

\* Mutant: the nested call also gets the arguments of the enclosing call.
ReplaceTemplateInherit(m, f, path, ctx) ==
    Enter(SetTop(m, [f EXCEPT !.wait = [kind |-> "template", at |-> path]]),
          Name(NodeAt(f.tree, path).name),
          NodeAt(f.tree, path).parameters \o f.parameters, ctx)

\* The Template arm of replace_once: the nested call by name.
ReplaceTemplate(m, f, path, ctx) ==
    Enter(SetTop(m, [f EXCEPT !.wait = [kind |-> "template", at |-> path]]),
          Name(NodeAt(f.tree, path).name), NodeAt(f.tree, path).parameters, ctx)

\* replace_once: the walk goes on to the next Template node, or ends.
ReplaceOnce(m, f, t, ctx) ==
    IF t.found THEN ReplaceTemplate(m, f, t.path, ctx)
    ELSE SetTop(m, [f EXCEPT !.tree = Unmark(f.tree),
                             !.phase = IF f.inLoop THEN "loopcheck" ELSE "branch"])
\* Mutant: a roundtrip the parser rejects gives the tree back as it is.
ReparsedLenient(m, parsed, params, ctx) ==
    IF ~parsed.ok THEN Return(Pop(m), Top(m).tree)
    ELSE Enter(m, Node(Fragment(parsed.nodes)), params, ctx)

\* unwrap_or_else(panic) of the roundtrip, then the call in tail position.
Reparsed(m, parsed, params, ctx) ==
    IF ~parsed.ok
    THEN Reported(m, "roundtrip",
                  [text |-> ToWikitext(Top(m).tree), kind |-> "roundtrip"])
    ELSE Enter(m, Node(Fragment(parsed.nodes)), params, ctx)
\* Mutant: the non-table path returns the tree of the pass without a roundtrip.
RoundtripSkipped(m, f, ctx) ==
    Return(Pop(m), f.tree)

\* "For non-table templates, roundtrip through wikitext"
Roundtrip(m, f, ctx) ==
    Reparsed(SetTop(m, [f EXCEPT !.wait = [kind |-> "tail", at |-> <<>>]]),
             ParseAndSimplifyWikitext(ToWikitext(f.tree)), f.parameters, ctx)

\* `if contains_table { loop { ... } } else { ... }`
Branch(m, f, ctx) ==
    IF ContainsTable(f.tree)
    THEN SetTop(m, [BeginPass(f, ctx) EXCEPT !.inLoop = TRUE, !.iterations = 1])
    ELSE Roundtrip(m, f, ctx)
\* Mutant: the loop does not compare the serializations and goes round again.
TableLoopNoBreak(m, f, ctx) ==
    IF f.iterations = MaxLoop THEN Failed(m, "spin")
    ELSE SetTop(m, [BeginPass(f, ctx) EXCEPT !.iterations = @ + 1])

\* `if before == after { break; }`
TableLoop(m, f, ctx) ==
    IF ToWikitext(f.before) = ToWikitext(f.tree)
    THEN SetTop(m, [f EXCEPT !.phase = "fixup", !.cells = CellAddrs(f.tree)])
    ELSE IF f.iterations = MaxLoop THEN Failed(m, "spin")
    ELSE SetTop(m, [BeginPass(f, ctx) EXCEPT !.iterations = @ + 1])

\* One cell of reparse_table_cells.
ReparseCell(m, f, parsed, ctx) ==
    IF HasMarkup(ToWikitext(Fragment(CellAt(f.tree, Head(f.cells)).content)))
       /\ parsed.ok /\ parsed.nodes # <<>>
    THEN Enter(SetTop(m, [f EXCEPT !.wait = [kind |-> "cell", at |-> Head(f.cells)]]),
               Node(Fragment(parsed.nodes)), <<>>, ctx)
    ELSE SetTop(m, [f EXCEPT !.cells = Tail(@)])

\* reparse_table_cells, and the return of the tree after it.
ReparseTableCells(m, f, ctx) ==
    IF f.cells = <<>> THEN Return(Pop(m), f.tree)
    ELSE ReparseCell(m, f,
            ParseAndSimplifyWikitext(
                ToWikitext(Fragment(CellAt(f.tree, Head(f.cells)).content))), ctx)

(***************************************************************************)
(* Inputs                                                                  *)
(***************************************************************************)

\* The extension of a template file, as the last token of its path.
Wikitext == ".wikitext"

\* The lookup of a root whose template files are named as their keys.
Keyed(texts) == [k \in DOMAIN texts |-> [content |-> texts[k], path |-> k \o <<Wikitext>>]]

\* A template set without an invocation cycle.
StoreAcyclic ==
    Keyed([k \in {<<"greeting">>, <<"wrapper">>, <<"echo">>, <<"magic">>, <<"plain">>,
            <<"twice">>, <<"subpagename">>, <<"broken">>} |->
      CASE k = <<"greeting">> -> <<"Hello", "{{{", "name", "|", "World", "}}}", "!">>
        [] k = <<"wrapper">>  -> <<"{{", "Greeting", "|", "name", "=", "Zed", "}}">>
        [] k = <<"echo">>     -> <<"{{{", "x", "}}}">>
        [] k = <<"magic">>    -> <<"{{", "SUBPAGENAME", "}}", "{{{", "SubPageName", "|", "d", "}}}">>
        [] k = <<"plain">>    -> <<"'''", "important", "'''">>
        [] k = <<"twice">>    -> <<"{{", "Greeting", "}}",
                                   "{{", "Greeting", "|", "name", "=", "Two", "}}">>
        [] k = <<"subpagename">> -> <<"stored">>
        [] k = <<"broken">>   -> <<Unsupported>>])

\* A template set, without cycle, of a table, of a template for a cell's
\* attributes, and of templates that give the table through nested calls.
StoreTables ==
    Keyed([k \in {<<"greeting">>, <<"cell">>, <<"tab">>, <<"row">>, <<"lua">>} |->
      CASE k = <<"greeting">> -> <<"Hello", "{{{", "name", "|", "World", "}}}", "!">>
        [] k = <<"cell">>     -> <<"al">>
        [] k = <<"tab">>      -> <<"{|", "class", "\n", "|-", "\n",
                                   "|", "{{", "Cell", "}}", "|", "A", "\n",
                                   "|", "{{{", "x", "|", "B", "}}}", "\n", "|}">>
        [] k = <<"row">>      -> <<"{{", "Tab", "}}">>
        [] k = <<"lua">>      -> <<"{{", "Row", "}}">>])

\* A template set with a template that invokes itself, two that invoke each
\* other, and one that invokes a template the set does not hold.
StoreCyclic ==
    Keyed([k \in {<<"greeting">>, <<"wrapper">>, <<"loop">>, <<"ping">>, <<"pong">>} |->
      CASE k = <<"greeting">> -> <<"Hello", "{{{", "name", "|", "World", "}}}", "!">>
        [] k = <<"wrapper">>  -> <<"{{", "Greeting", "}}", "{{", "Missing", "}}">>
        [] k = <<"loop">>     -> <<"{{", "Loop", "}}">>
        [] k = <<"ping">>     -> <<"{{", "Pong", "}}">>
        [] k = <<"pong">>     -> <<"{{", "Ping", "}}">>])
\* scan_dir of FileSystemLoader::new: the key of a file, from its path below
\* the root without the extension:
\* .to_lowercase().replace("\\", "/").replace(" ", "_")
ScanDirKey(path) == ReplaceTok(ReplaceTok(ToLowercase(path), "\\", "/"), " ", "_")

\* Path::extension: the last token of the path, when the file name has a
\* stem before it; None ("" here) for a file name that is nothing but a dot
\* and letters, such as ".wikitext".  The paths are those of a file system
\* that tells upper case from lower case: "/" separates the components, and
\* a backslash is a character of a file name like any other.
Extension(path) ==
    IF Len(path) >= 2 /\ path[Len(path) - 1] # "/"
    THEN path[Len(path)] ELSE ""

\* path.with_extension("")
WithoutExtension(path) == SubSeq(path, 1, Len(path) - 1)

\* scan_dir comes to the files in the order read_dir yields them, an order the
\* file system decides: a file that is not a template file is passed over, and
\* lookup.insert replaces the path an earlier file left under the same key.
RECURSIVE ScanDir(_, _)
ScanDir(order, lookup) ==
    IF order = <<>> THEN lookup
    ELSE ScanDir(Tail(order),
                 IF Extension(Head(order)) = Wikitext
                 THEN Put(lookup, ScanDirKey(WithoutExtension(Head(order))), Head(order))
                 ELSE lookup)

\* FileSystemLoader::new, when it returns Ok: the lookup table of the files
\* below the root, each key with the path it leads to and what a read of
\* that file gives.
FileSystemLoaderNew(files, order) ==
    [k \in DOMAIN ScanDir(order, EmptyMap) |->
        [content |-> files[ScanDir(order, EmptyMap)[k]],
         path |-> ScanDir(order, EmptyMap)[k]]]

\* The orders read_dir can yield the files of a root in.
RECURSIVE ReadDirOrders(_)
ReadDirOrders(paths) ==
    IF paths = {} THEN {<<>>}
    ELSE UNION { { <<p>> \o o : o \in ReadDirOrders(paths \ {p}) } : p \in paths }

\* The lookups FileSystemLoader::new can build for a root.
Lookups(files) == { FileSystemLoaderNew(files, o) : o \in ReadDirOrders(DOMAIN files) }

\* The files of a root: a template file with a backslash and a space in
\* its name; one of text and bold text; an empty one; one of a placeholder
\* with a default; one that invokes the last three, the last with an
\* argument, and has a placeholder of that argument's name; one whose bytes
\* are not UTF-8; and a file that is not a template file.
Files ==
    [p \in {<<"Sub", "\\", "My", " ", "Page", Wikitext>>, <<"Two", Wikitext>>,
            <<"None", Wikitext>>, <<"One", Wikitext>>, <<"Pair", Wikitext>>,
            <<"Broken", Wikitext>>, <<"Two", ".txt">>} |->
      CASE p = <<"Two", Wikitext>>  -> <<"a", "'''", "b", "'''">>
        [] p = <<"None", Wikitext>> -> <<>>
        [] p = <<"One", Wikitext>>  -> <<"{{{", "x", "|", "single", "}}}">>
        [] p = <<"Pair", Wikitext>> -> <<"{{", "Two", "}}", "{{", "None", "}}",
                                         "{{", "One", "|", "name", "=", "In", "}}",
                                         "{{{", "name", "|", "out", "}}}">>
        [] p = <<"Broken", Wikitext>> -> <<"caf", NotUtf8>>
        [] p = <<"Two", ".txt">>    -> <<"notes">>
        [] OTHER                    -> <<"filed">>]

\* The files of a root with two template files of one key; two files whose
\* name is the extension alone, one of them in a subdirectory; and a
\* template file whose name ends in a backslash.
FilesColliding ==
    [p \in {<<"Plain", Wikitext>>, <<"plain", Wikitext>>, <<Wikitext>>,
            <<"Sub", "/", Wikitext>>, <<"Sub", "\\", Wikitext>>} |->
      CASE p = <<"Plain", Wikitext>>     -> <<"upper">>
        [] p = <<"plain", Wikitext>>     -> <<"lower">>
        [] p = <<"Sub", "\\", Wikitext>> -> <<"named">>
        [] OTHER                         -> <<"hidden">>]

\* The template sets FileSystemLoader builds from the files.
StoreFiles == Lookups(Files)

StoreColliding == Lookups(FilesColliding)

Stores == {StoreAcyclic, StoreTables, StoreCyclic} \cup StoreFiles \cup StoreColliding

\* key2 is invoked by the source text of key1.
Invokes(st, key1, key2) ==
    \E i \in DOMAIN st[key1].content :
        /\ st[key1].content[i] = "{{"
        /\ i < Len(st[key1].content)
        /\ NormalizeKey(<<st[key1].content[i + 1]>>) = key2

RECURSIVE Reaches(_, _, _, _)
Reaches(st, from, to, n) ==
    \/ Invokes(st, from, to)
    \/ n > 0 /\ \E mid \in DOMAIN st : Invokes(st, from, mid) /\ Reaches(st, mid, to, n - 1)

\* No template reaches itself through a chain of invocations.
Acyclic(st) == \A k \in DOMAIN st : ~Reaches(st, k, k, Cardinality(DOMAIN st))

TargetNames ==
    {<<"Greeting">>, <<"Wrapper">>, <<"Echo">>, <<"Magic">>, <<"Plain">>, <<"Tab">>,
     <<"Lua">>, <<"Twice">>, <<"SUBPAGENAME">>, <<"Missing">>, <<"Broken">>, <<"Loop">>, <<"Ping">>,
     <<"Sub", "/", "My", " ", "Page">>, <<"sub", "/", "my", "_", "page">>,
     <<"Sub", "\\", "My", " ", "Page">>, <<"Pair">>}

TargetNodes ==
    { Fragment(<<Text(<<"'''">>), Text(<<"b">>), Text(<<"'''">>)>>),
      Fragment(<<ParameterUse(<<"x">>, FALSE, <<>>),
                 ParameterUse(<<"name">>, TRUE, <<ParameterUse(<<"x">>, FALSE, <<>>)>>)>>),
      Fragment(<<Bold(<<Table(<<>>, <<>>,
                    <<Row(<<>>, <<Cell(FALSE, FALSE, <<>>,
                                       <<ParameterUse(<<"x">>, FALSE, <<>>)>>)>>)>>)>>)>>) }

ParameterLists ==
    { <<>>,
      <<Param(<<"Name">>, <<"Eve">>), Param(<<"name">>, <<"Ada">>),
        Param(<<"name">>, <<"Bob">>)>>,
      <<Param(<<"x">>, <<"{{{", "x", "}}}">>)>>,
      <<Param(<<"x">>, <<"[[", "L", "]]">>), Param(<<"Name">>, <<"Eve">>)>>,
      <<Param(<<"SubPageName">>, <<"Explicit">>), Param(<<"x">>, <<"{{", "Greeting", "}}">>)>>,
      <<Param(<<"x">>, <<"[[", Unsupported>>)>> }

Contexts == {<<"Overview">>}

(***************************************************************************)
(* The calls of instantiate, step by step                                  *)
(***************************************************************************)

M == [loads |-> loads, lookups |-> lookups, pc |-> pc, stack |-> stack,
      result |-> result, report |-> report, cache |-> templates]

Apply(m) ==
    /\ stack' = m.stack
    /\ templates' = m.cache
    /\ loads' = m.loads
    /\ lookups' = m.lookups
    /\ pc' = m.pc
    /\ result' = m.result
    /\ report' = m.report

Running == pc = "run"
Returned == pc = "done"
Panicked == pc \in {"notfound", "unreadable", "parseerror", "roundtrip", "overflow", "spin"}

\* The frame of the call that is running.
Frame == stack[Len(stack)]

\* After main.rs 58-59: FileSystemLoader::new has returned Ok with a lookup
\* and the cache is empty, or it has returned the Err of read_dir and
\* generate_wiki has returned it.
Init ==
    /\ \/ store \in Stores /\ pc = "idle"
       \/ store = EmptyMap /\ pc = "scanfailed"
    /\ templates = EmptyMap
    /\ loads = EmptyMap
    /\ lookups = {}
    /\ stack = <<>>
    /\ target = Node(NoNode)
    /\ parameters = <<>>
    /\ context = <<>>
    /\ result = NoNode
    /\ report = NoReport
    /\ page = NoNode

\* The tree convert_wikitext_to_html is converting: the tree the caller's last
\* call returned (main.rs 330-336), kept while the attributes of its tables
\* are instantiated.
Converting == IF page = NoNode THEN result ELSE page

\* The tables of a tree.
TablesOf(tree) ==
    { NodeAt(tree, p) : p \in { q \in WalkPaths(tree) : NodeAt(tree, q).type = "Table" } }

\* The text main.rs 484-487 adds to the attributes of a table without a class.
TableClasses == " class=\"min-w-full divide-y divide-gray-200 border border-gray-300\""

\* main.rs 469-476: the first node of the instantiated attributes is a Text
\* that contains "class=".
HasClassAttr(instantiated) ==
    /\ instantiated.type = "Fragment"
    /\ instantiated.children # <<>>
    /\ instantiated.children[1].type = "Text"
    /\ \E i \in DOMAIN instantiated.children[1].text :
            instantiated.children[1].text[i] \in {"class=", TableClasses}

\* The attribute lists main.rs hands to instantiate for a table: the table's
\* own (459-468); the table's with the classes added, when it has none or the
\* call on its own has returned without a class (482-496); those of its
\* captions, rows and cells (500-546).
AttributesOf(t) ==
    {t.attributes}
    \cup (IF t.attributes = <<>>
             \/ (target = Node(Fragment(t.attributes)) /\ ~HasClassAttr(result))
          THEN {t.attributes \o <<Text(<<TableClasses>>)>>} ELSE {})
    \cup {t.captions[i].attributes : i \in DOMAIN t.captions}
    \cup {t.rows[j].attributes : j \in DOMAIN t.rows}
    \cup UNION { {t.rows[j].cells[c].attributes : c \in DOMAIN t.rows[j].cells} :
                 j \in DOMAIN t.rows }

\* The caller (main.rs) calls instantiate for a page's Template node, or a test
\* calls it, when no call is in progress.
Call(tgt, params, ctx) ==
    /\ pc \in {"idle", "done"}
    /\ target' = tgt
    /\ parameters' = params
    /\ context' = ctx
    /\ page' = NoNode
    /\ Apply(Enter([M EXCEPT !.pc = "run"], tgt, params, ctx))
    /\ UNCHANGED store

\* The caller, converting the tree a call returned, calls instantiate on the
\* attributes of a table, caption, row or cell of it, unless they are empty:
\* on a Fragment of them, without arguments, in the context of the page.
CallAgain(attrs) ==
    /\ pc = "done"
    /\ attrs # <<>>
    /\ target' = Node(Fragment(attrs))
    /\ parameters' = <<>>
    /\ context' = context
    /\ page' = Converting
    /\ Apply(Enter([M EXCEPT !.pc = "run"], Node(Fragment(attrs)), <<>>, context))
    /\ UNCHANGED store

\* The running call checks whether it is done.
Check ==
    /\ Running
    /\ Frame.phase = "check"
    /\ Apply(Checked(M, Frame, context))
    /\ UNCHANGED <<store, target, parameters, context, page>>

\* The walk of replace_once comes to its next Template node, or ends.
Replace ==
    /\ Running
    /\ Frame.phase = "replace"
    /\ Apply(ReplaceOnce(M, Frame, FirstTemplate(Frame.tree), context))
    /\ UNCHANGED <<store, target, parameters, context, page>>

\* After the first walk: into the table loop, or roundtrip and re-enter.
Continue ==
    /\ Running
    /\ Frame.phase = "branch"
    /\ Apply(Branch(M, Frame, context))
    /\ UNCHANGED <<store, target, parameters, context, page>>

\* The table loop compares the text before and after its walk.
Loop ==
    /\ Running
    /\ Frame.phase = "loopcheck"
    /\ Apply(TableLoop(M, Frame, context))
    /\ UNCHANGED <<store, target, parameters, context, page>>

\* reparse_table_cells comes to its next cell, or the call returns.
Reparse ==
    /\ Running
    /\ Frame.phase = "fixup"
    /\ Apply(ReparseTableCells(M, Frame, context))
    /\ UNCHANGED <<store, target, parameters, context, page>>

Next ==
    \/ \E n \in TargetNames, params \in ParameterLists, ctx \in Contexts :
            Call(Name(n), params, ctx)
    \/ \E t \in TargetNodes, params \in ParameterLists, ctx \in Contexts :
            Call(Node(t), params, ctx)
    \/ \E t \in TablesOf(Converting) : \E attrs \in AttributesOf(t) : CallAgain(attrs)
    \/ Check
    \/ Replace
    \/ Continue
    \/ Loop
    \/ Reparse

Spec == Init /\ [][Next]_vars

\* A call in progress takes its next step.
FairSpec ==
    Spec /\ WF_vars(Check) /\ WF_vars(Replace) /\ WF_vars(Continue)
         /\ WF_vars(Loop) /\ WF_vars(Reparse)

(***************************************************************************)
(* Properties                                                              *)
(***************************************************************************)

\* The tree holds no Template and no TemplateParameterUse node, looked for
\* field by field: children, table attributes, captions, row attributes, cell
\* attributes and cell contents.
RECURSIVE NoTemplateNodes(_)
NoneIn(nodes) == \A i \in DOMAIN nodes : NoTemplateNodes(nodes[i])

NoTemplateNodes(node) ==
    CASE node.type \in {"Template", "TemplateParameterUse"} -> FALSE
      [] node.type \in {"Fragment", "Bold"} -> NoneIn(node.children)
      [] node.type = "Table" ->
            /\ NoneIn(node.attributes)
            /\ \A i \in DOMAIN node.captions :
                    NoneIn(node.captions[i].attributes) /\ NoneIn(node.captions[i].content)
            /\ \A j \in DOMAIN node.rows :
                    /\ NoneIn(node.rows[j].attributes)
                    /\ \A c \in DOMAIN node.rows[j].cells :
                            /\ NoneIn(node.rows[j].cells[c].attributes)
                            /\ NoneIn(node.rows[j].cells[c].content)
      [] OTHER -> TRUE

IsTable(node) == node.type = "Table"

\* C1: a call of instantiate that returns, returns a tree with no Template
\* and no TemplateParameterUse node at any depth, tables included, on the
\* table path and on the non-table path.
C1_ResultFullyExpanded == Returned => NoTemplateNodes(result)

\* A call by name returned a table whose cell attributes came from a nested
\* template and whose cell content came from an argument.
C1_Witness ==
    /\ Returned
    /\ target = Name(<<"Tab">>)
    /\ parameters # <<>>
    /\ result.type = "Fragment"
    /\ \E i \in DOMAIN result.children :
            /\ IsTable(result.children[i])
            /\ result.children[i].rows[1].cells[1].attributes = <<Text(<<"al">>)>>
            /\ result.children[i].rows[1].cells[2].content # <<Text(<<"B">>)>>

\* C2: with a template store in which no template reaches itself, and any
\* argument list, instantiate returns: no call ends by exhausting the stack
\* or by staying in the table loop.
C2_AcyclicTerminates == Acyclic(store) => pc \notin {"overflow", "spin"}

\* C3: a call with the magic name, in any case, returns Text of the context's
\* sub page name at once; the loader is never called for the key
\* "subpagename" and the cache is neither read nor written for it.
C3_MagicNameReturnsContext ==
    /\ [](/\ <<"subpagename">> \notin lookups
          /\ <<"subpagename">> \notin DOMAIN loads
          /\ <<"subpagename">> \notin DOMAIN templates)
    /\ [][(/\ pc \in {"idle", "done"}
           /\ target'.kind = "Name"
           /\ EqIgnoreAsciiCase(target'.name, MagicName))
          => (/\ pc' = "done"
              /\ result' = Text(context')
              /\ UNCHANGED <<templates, loads, lookups>>)]_vars

\* The magic name in upper case was called with arguments, with a store that
\* holds a template under the key "subpagename".
C3_Witness ==
    /\ Returned
    /\ target = Name(<<"SUBPAGENAME">>)
    /\ parameters # <<>>
    /\ <<"subpagename">> \in DOMAIN store
    /\ result = Text(context)
    /\ context # <<>>

\* The paths to the placeholders of a tree.
PlaceholdersOf(tree) ==
    {p \in WalkPaths(tree) : NodeAt(tree, p).type = "TemplateParameterUse"}

Bound(params, name) == \E k \in DOMAIN params : params[k].name = name

\* The value of the first argument of that name.
FirstValue(params, name) ==
    params[CHOOSE k \in DOMAIN params :
              /\ params[k].name = name
              /\ \A j \in 1..(k - 1) : params[j].name # name].value

IsMagic(name) == ToLowercase(name) = <<"subpagename">>

\* A walk of replace_once has just ended in the running call: the frame holds
\* the tree before the walk and the tree after it.
PassDone == Running /\ Frame.phase \in {"branch", "loopcheck"}

\* C4: a substitution pass replaces a placeholder whose name the current
\* argument list binds by Text of that argument's value, whether or not the
\* placeholder has a default.
C4_BoundArgumentWins ==
    PassDone =>
        \A p \in PlaceholdersOf(Frame.before) :
            Bound(Frame.parameters, NodeAt(Frame.before, p).name) =>
                NodeAt(Frame.tree, p) =
                    Text(FirstValue(Frame.parameters, NodeAt(Frame.before, p).name))

\* The pass met a bound placeholder that has a default, and put the argument
\* in its place.
C4_Witness ==
    /\ PassDone
    /\ \E p \in PlaceholdersOf(Frame.before) :
            /\ NodeAt(Frame.before, p).hasDefault
            /\ NodeAt(Frame.before, p).default = <<Text(<<"World">>)>>
            /\ Bound(Frame.parameters, NodeAt(Frame.before, p).name)
            /\ NodeAt(Frame.tree, p) = Text(<<"Ada">>)

\* C5: a substitution pass replaces a placeholder named "subpagename", in any
\* case, by the value of the argument of the same name when there is one, and
\* by the context's sub page name otherwise, its default never being used.
C5_MagicPlaceholder ==
    PassDone =>
        \A p \in PlaceholdersOf(Frame.before) :
            IsMagic(NodeAt(Frame.before, p).name) =>
                NodeAt(Frame.tree, p) =
                    IF Bound(Frame.parameters, NodeAt(Frame.before, p).name)
                    THEN Text(FirstValue(Frame.parameters, NodeAt(Frame.before, p).name))
                    ELSE Text(context)

\* The pass met the magic placeholder, unbound and with a default, and put the
\* context's sub page name in its place.
C5_Witness ==
    /\ PassDone
    /\ \E p \in PlaceholdersOf(Frame.before) :
            /\ IsMagic(NodeAt(Frame.before, p).name)
            /\ NodeAt(Frame.before, p).name # <<"subpagename">>
            /\ NodeAt(Frame.before, p).hasDefault
            /\ ~Bound(Frame.parameters, NodeAt(Frame.before, p).name)
            /\ NodeAt(Frame.tree, p) = Text(context)
            /\ Text(context) # Text(ToWikitext(Fragment(NodeAt(Frame.before, p).default)))

\* The placeholder at p is unbound, is not the magic one, and has a default.
Defaulted(tree, params, p) ==
    /\ ~Bound(params, NodeAt(tree, p).name)
    /\ ~IsMagic(NodeAt(tree, p).name)
    /\ NodeAt(tree, p).hasDefault

DefaultText(tree, p) == ToWikitext(Fragment(NodeAt(tree, p).default))

\* The text holds no token of wiki markup.
PlainText(s) ==
    \A i \in DOMAIN s :
        s[i] \notin {"{{", "}}", "{{{", "}}}", "[[", "]]", "'''", "''",
                     "{|", "|}", "|-", "|+", "|", "!", "=", "\n", Unsupported}

\* The text occurs in the serialization of the tree.
ShowsText(tree, s) ==
    \E i \in 0..Len(ToWikitext(tree)) :
        /\ i + Len(s) <= Len(ToWikitext(tree))
        /\ SubSeq(ToWikitext(tree), i + 1, i + Len(s)) = s

\* The tree the outermost call expands.
Start == IF target.kind = "Node" THEN target.node
         ELSE templates[NormalizeKey(target.name)]

\* A pass replaces an unbound placeholder that has a default by one Text node
\* holding the serialization of the default.
DefaultSerialized ==
    PassDone =>
        \A p \in PlaceholdersOf(Frame.before) :
            Defaulted(Frame.before, Frame.parameters, p) =>
                NodeAt(Frame.tree, p) = Text(DefaultText(Frame.before, p))

C7_UnboundNoDefaultEmpty ==
    PassDone =>
        \A p \in PlaceholdersOf(Frame.before) :
            (/\ ~Bound(Frame.parameters, NodeAt(Frame.before, p).name)
             /\ ~IsMagic(NodeAt(Frame.before, p).name)
             /\ ~NodeAt(Frame.before, p).hasDefault) =>
                NodeAt(Frame.tree, p) = Text(<<>>)

\* The pass met an unbound placeholder without default in a call that has
\* arguments, none of them of its name.
C7_Witness ==
    /\ PassDone
    /\ Frame.parameters # <<>>
    /\ \E p \in PlaceholdersOf(Frame.before) :
            /\ ~Bound(Frame.parameters, NodeAt(Frame.before, p).name)
            /\ ~NodeAt(Frame.before, p).hasDefault
            /\ NodeAt(Frame.tree, p) = Text(<<>>)

\* C8: a call whose tree holds no Template and no TemplateParameterUse node
\* returns that tree unchanged at its check, with no pass, roundtrip or cell
\* fix-up; so a call on the result of a call returns the same tree.
C8_CleanTreeUnchanged ==
    /\ []((Running /\ Len(stack) = 1 /\ Frame.phase = "check") => Frame.tree = Start)
    /\ [][(Running /\ Frame.phase = "check" /\ NoTemplateNodes(Frame.tree))
          => (/\ Len(stack') < Len(stack)
              /\ Len(stack) = 1 => (pc' = "done" /\ result' = Frame.tree))]_vars
    /\ [][(Running /\ Len(stack) = 1 /\ Frame.phase = "check" /\ target = Node(result))
          => (pc' = "done" /\ result' = result)]_vars

\* A call on a tree of text nodes returned it as it was, though the roundtrip
\* would have made bold text of it.
C8_Witness ==
    /\ Returned
    /\ target.kind = "Node"
    /\ result = target.node
    /\ Len(result.children) > 1
    /\ Fragment(ParseAndSimplifyWikitext(ToWikitext(result)).nodes) # result

\* C9: a cache entry, once inserted, is never removed or replaced; the loader
\* is called for a name only when the cache has no entry for it, so at most
\* once per name, and every entry comes from a load.
C9_CacheInsertOnce ==
    /\ [](/\ \A k \in DOMAIN loads : loads[k] = 1
          /\ DOMAIN templates \subseteq DOMAIN loads
          /\ DOMAIN loads \subseteq lookups)
    /\ [][/\ \A k \in DOMAIN templates :
                k \in DOMAIN templates' /\ templates'[k] = templates[k]
          /\ \A k \in DOMAIN loads' :
                Count(loads', k) > Count(loads, k) => k \notin DOMAIN templates]_vars

\* The second invocation of a template in one tree is running, the first is
\* done, and the loader was called once.
C9_Witness ==
    /\ Running
    /\ Len(stack) > 1
    /\ stack[1].wait.kind = "template"
    /\ stack[1].wait.at = << <<1, 2>> >>
    /\ stack[1].tree.children[1].type = "Done"
    /\ stack[1].tree.children[2].name = <<"Greeting">>
    /\ loads[<<"greeting">>] = 1

\* C10: every cache entry equals the Fragment of the parse of its template's
\* source, whatever calls were made; invocations of one template with
\* different arguments each get their own arguments' values.
C10_CacheNeverMutated ==
    /\ \A k \in DOMAIN templates :
            /\ k \in DOMAIN store
            /\ templates[k] = Fragment(ParseAndSimplifyWikitext(store[k].content).nodes)
    /\ (Returned /\ target = Name(<<"Greeting">>)) =>
            result = Fragment(<<Text(<<"Hello",
                        IF Bound(parameters, <<"name">>)
                        THEN FirstValue(parameters, <<"name">>)[1] ELSE "World",
                        "!">>)>>)

\* One call invoked a template twice with different arguments; the cache
\* still holds the template with its placeholder.
C10_Witness ==
    /\ Returned
    /\ target = Name(<<"Twice">>)
    /\ result = Fragment(<<Text(<<"Hello", "World", "!", "Hello", "Two", "!">>)>>)
    /\ ~NoTemplateNodes(templates[<<"greeting">>])

\* The paths, through fragments, to the tables of a tree.
RECURSIVE TablePaths(_)
TablePaths(node) ==
    CASE node.type = "Table" -> {<<>>}
      [] node.type = "Fragment" ->
            UNION { { <<i>> \o p : p \in TablePaths(node.children[i]) } :
                    i \in DOMAIN node.children }
      [] OTHER -> {}

\* t2 is a table with the rows of t1 and, row by row, as many cells.
SameShape(t1, t2) ==
    /\ IsTable(t2)
    /\ Len(t2.rows) = Len(t1.rows)
    /\ \A j \in DOMAIN t1.rows : Len(t2.rows[j].cells) = Len(t1.rows[j].cells)

\* The cell holds nothing to expand and nothing the fix-up re-parses.
Settled(cell) ==
    /\ NoneIn(cell.attributes)
    /\ NoneIn(cell.content)
    /\ ~HasMarkup(ToWikitext(Fragment(cell.content)))

\* Every table of tree1 is, in tree2, a table of the same shape whose settled
\* cells are as they were.
TablesKept(tree1, tree2) ==
    \A p \in TablePaths(tree1) :
        /\ SameShape(TableAt(tree1, p), TableAt(tree2, p))
        /\ \A j \in DOMAIN TableAt(tree1, p).rows :
             \A c \in DOMAIN TableAt(tree1, p).rows[j].cells :
                /\ NoneIn(TableAt(tree1, p).rows[j].cells[c].content)
                   /\ ~HasMarkup(ToWikitext(Fragment(TableAt(tree1, p).rows[j].cells[c].content)))
                   => TableAt(tree2, p).rows[j].cells[c].content =
                        TableAt(tree1, p).rows[j].cells[c].content
                /\ Settled(TableAt(tree1, p).rows[j].cells[c])
                   => TableAt(tree2, p).rows[j].cells[c] = TableAt(tree1, p).rows[j].cells[c]

\* C11: a pass, the table loop and the cell fix-up keep the rows of a table
\* and the cells of every row; a cell with nothing to expand keeps its
\* content while a sibling is expanded.  So the returned table has the shape
\* of the table the call started from.
C11_TableStructurePreserved ==
    /\ [][\A d \in DOMAIN stack :
            (Running /\ pc' \in {"run", "done"} /\ d <= Len(stack'))
                => TablesKept(Unmark(stack[d].tree), Unmark(stack'[d].tree))]_vars
    /\ []((Returned /\ ~(target.kind = "Name" /\ IsMagic(target.name)))
            => TablesKept(Start, result))

\* A table came back with both cells of its row: the first has its attributes
\* from a template and its own content, the second a link parsed from an
\* argument.
C11_Witness ==
    /\ Returned
    /\ target = Name(<<"Tab">>)
    /\ \E p \in TablePaths(result) :
        /\ Len(TableAt(result, p).rows) = 1
        /\ Len(TableAt(result, p).rows[1].cells) = 2
        /\ TableAt(result, p).rows[1].cells[1].attributes = <<Text(<<"al">>)>>
        /\ TableAt(result, p).rows[1].cells[1].content = <<Text(<<"A">>)>>
        /\ TableAt(result, p).rows[1].cells[2].content = <<Link(<<"L">>, <<"L">>)>>
        /\ TableAt(Start, p).rows[1].cells[1].content = <<Text(<<"A">>)>>

\* The running call is at a Template node, or the caller calls by name: the
\* name a call is about to resolve.
AtTemplate == Running /\ Frame.phase = "replace" /\ FirstTemplate(Frame.tree).found

TemplateName == NodeAt(Frame.tree, FirstTemplate(Frame.tree).path).name

\* C12: when a Template node, or the caller, names a template that the store
\* does not hold under the normalized key, the call returns no tree: the
\* process ends in the template-not-found failure, whose message holds the
\* requested name and the normalized key.
C12_TemplateNotFound ==
    /\ [][(/\ AtTemplate
           /\ Len(stack) < MaxDepth
           /\ ~IsMagic(TemplateName)
           /\ NormalizeKey(TemplateName) \notin DOMAIN store)
          => (/\ pc' = "notfound"
              /\ result' = result
              /\ report' = [name |-> TemplateName, key |-> NormalizeKey(TemplateName),
                            kind |-> "notfound"])]_vars
    /\ [][(/\ pc \in {"idle", "done"}
           /\ target'.kind = "Name"
           /\ ~IsMagic(target'.name)
           /\ NormalizeKey(target'.name) \notin DOMAIN store)
          => (/\ pc' = "notfound"
              /\ report' = [name |-> target'.name, key |-> NormalizeKey(target'.name),
                            kind |-> "notfound"])]_vars
    /\ [][pc = "notfound" => FALSE]_vars
    /\ [](pc = "notfound" => (report.kind = "notfound" /\ report.key \notin DOMAIN store))

\* The second Template node of a tree named a template the store does not
\* hold; the first had been expanded.
C12_Witness ==
    /\ pc = "notfound"
    /\ stack # <<>>
    /\ Frame.wait.kind = "template"
    /\ Frame.tree.children[1].type = "Done"
    /\ report.name = <<"Missing">>
    /\ report.key = <<"missing">>
    /\ <<"greeting">> \in DOMAIN templates

\* The text of the cell the fix-up has come to.
CellText == ToWikitext(Fragment(CellAt(Frame.tree, Head(Frame.cells)).content))

\* The roundtrip of the running call re-parses a text the parser rejects.
RoundtripRejected ==
    /\ Running
    /\ Frame.phase = "branch"
    /\ ~ContainsTable(Frame.tree)
    /\ ~ParseAndSimplifyWikitext(ToWikitext(Frame.tree)).ok

\* The cell fix-up of the running call re-parses a cell the parser rejects.
CellRejected ==
    /\ Running
    /\ Frame.phase = "fixup"
    /\ Frame.cells # <<>>
    /\ HasMarkup(CellText)
    /\ ~ParseAndSimplifyWikitext(CellText).ok

\* What the code does when the parser rejects a text: for the serialization
\* of the whole tree on the non-table path the call returns no tree, and the
\* process ends in a panic whose message holds the offending text; for the
\* serialization of a table cell in the cell fix-up the failure is dropped,
\* the cell stays as it is and the call goes on.
C13_RoundtripFailureFatal ==
    /\ [][RoundtripRejected
          => (/\ pc' = "roundtrip"
              /\ result' = result
              /\ report' = [text |-> ToWikitext(Frame.tree), kind |-> "roundtrip"])]_vars
    /\ [][pc = "roundtrip" => FALSE]_vars
    /\ [][CellRejected
          => (/\ pc' = "run"
              /\ stack' = [stack EXCEPT ![Len(stack)].cells = Tail(@)])]_vars

\* The roundtrip of a call by name re-parsed an argument's text that the
\* parser rejects: the process died with the text in the message.
C13_Witness ==
    /\ pc = "roundtrip"
    /\ target = Name(<<"Echo">>)
    /\ Frame.before # Frame.tree
    /\ report = [text |-> <<"[[", Unsupported>>, kind |-> "roundtrip"]

\* C13: whenever the parser rejects a text produced during the expansion,
\* the serialization of the whole tree or that of one table cell, the call
\* fails with a parse error and returns no tree.
C13_ParserFailureFatal ==
    [][(RoundtripRejected \/ CellRejected) => pc' \in {"roundtrip", "parseerror"}]_vars

\* C14: the table loop stops: its first comparison finds the serialization
\* before the pass equal to the one after it, also when the table came out of
\* two levels of nested template calls; the tree it stops with holds nothing
\* that a further pass would replace.
C14_TableLoopBounded ==
    /\ [](pc # "spin")
    /\ []((Running /\ Frame.phase = "loopcheck") =>
            /\ Frame.iterations = 1
            /\ ToWikitext(Frame.before) = ToWikitext(Frame.tree)
            /\ NoTemplateNodes(Frame.tree)
            /\ ~FirstTemplate(Frame.tree).found
            /\ ReplaceParameterUses(Frame.tree, Frame.parameters, context) = Frame.tree)
    /\ [][(Running /\ Frame.phase = "loopcheck") =>
            (/\ pc' = "run"
             /\ Len(stack') = Len(stack)
             /\ stack'[Len(stack)].phase = "fixup"
             /\ stack'[Len(stack)].tree = Frame.tree)]_vars

\* The loop of the outermost call compares the serializations of a table
\* that two levels of nested calls produced.
C14_Witness ==
    /\ Running
    /\ Len(stack) = 1
    /\ target = Name(<<"Lua">>)
    /\ Frame.phase = "loopcheck"
    /\ ContainsTable(Frame.tree)
    /\ ~ContainsTable(Start)
    /\ ~ContainsTable(templates[<<"row">>])
    /\ Acyclic(store)


\* The tree is what the grammar parser gives for the tree's own serialization.
ParserOutput(tree) ==
    /\ tree.type = "Fragment"
    /\ ParseAndSimplifyWikitext(ToWikitext(tree)).ok
    /\ tree.children = ParseAndSimplifyWikitext(ToWikitext(tree)).nodes

MagicTarget == target.kind = "Name" /\ EqIgnoreAsciiCase(target.name, MagicName)

\* C15: on the non-table path the pass is followed by serializing the whole
\* tree, parsing the text and entering instantiate on Fragment(parsed nodes)
\* with the same parameters and context (or the parser's rejection is fatal);
\* a returned tree without a table is the unchanged input or cached tree, or
\* it is direct parser output: parsing its serialization gives it back, so no
\* Text node of it holds markup the parser would turn into a node.
C15_NonTableRoundtrip ==
    /\ [][(Running /\ Frame.phase = "branch" /\ ~ContainsTable(Frame.tree)) =>
            IF ~ParseAndSimplifyWikitext(ToWikitext(Frame.tree)).ok
            THEN pc' = "roundtrip"
            ELSE IF Len(stack) = MaxDepth THEN pc' = "overflow"
            ELSE /\ pc' = "run"
                 /\ Len(stack') = Len(stack) + 1
                 /\ stack'[Len(stack)].wait.kind = "tail"
                 /\ stack'[Len(stack')] =
                      NewFrame(Fragment(ParseAndSimplifyWikitext(
                                            ToWikitext(Frame.tree)).nodes),
                               Frame.parameters)
                 /\ context' = context]_vars
    /\ []((Returned /\ ~MagicTarget /\ ~ContainsTable(result)) =>
            (result = Start \/ ParserOutput(result)))

\* Echo called with x = [[L]]: the value, substituted as Text, comes back as a
\* Link node.
C15_Witness ==
    /\ Returned
    /\ target = Name(<<"Echo">>)
    /\ result # Start
    /\ ParserOutput(result)
    /\ \E i \in DOMAIN result.children : result.children[i].type = "Link"


\* C16: the cache and the store use one normalized key for a name (lowercase,
\* space to '_', '\' to '/'): every key that get looks up is normalized in
\* this way, a lookup fails only when the store has no entry under the
\* name's normalized key, and every key is loaded once.
C16_OneNormalizedKey ==
    /\ \A k \in lookups : k = ScanDirKey(k)
    /\ pc = "notfound" => ScanDirKey(report.name) \notin DOMAIN store
    /\ \A k \in DOMAIN loads : loads[k] = 1

\* Names that differ in letter case and in space against '_' have one key,
\* one cache entry and one load; a name with '\' for '/' is given another key
\* by get and by load.
C16_CaseAndSpace ==
    /\ \A k \in lookups : k = NormalizeKey(k)
    /\ pc = "notfound" => NormalizeKey(report.name) \notin DOMAIN store
    /\ \A k \in DOMAIN loads : loads[k] = 1
    /\ (/\ Returned /\ store \in StoreFiles /\ target.kind = "Name"
        /\ NormalizeKey(target.name) = <<"sub", "/", "my", "_", "page">>) =>
            /\ <<"sub", "/", "my", "_", "page">> \in DOMAIN templates
            /\ result = Fragment(<<Text(<<"filed">>)>>)


\* The call in progress is of a template that reaches itself through a chain
\* of invocations.
OnCycle ==
    /\ target.kind = "Name"
    /\ NormalizeKey(target.name) \in DOMAIN store
    /\ Reaches(store, NormalizeKey(target.name), NormalizeKey(target.name),
               Cardinality(DOMAIN store))

\* The progress of a call: the depth of the stack, then the phase of the
\* running frame.
Progress ==
    2 * Len(stack) + (IF stack # <<>> /\ Frame.phase = "check" THEN 0 ELSE 1)

\* C17: a call of a template on an invocation cycle never returns a tree and
\* never reports an error: no step of it takes a frame off the stack, every
\* step brings the call further (one more frame, or the frame's walk after
\* its test for being done), and the call ends only when the stack is
\* exhausted.
C17_CycleExhaustsStack ==
    /\ [](OnCycle => (pc \in {"run", "overflow"} /\ report = NoReport))
    /\ []((OnCycle /\ Running) => Frame.phase \in {"check", "replace"})
    /\ [][(OnCycle /\ Running) =>
            \/ pc' = "overflow" /\ Len(stack) = MaxDepth
            \/ /\ pc' = "run"
               /\ Len(stack') >= Len(stack)
               /\ Progress' > Progress]_vars

\* Two templates that invoke each other: the stack is full of their calls.
C17_Witness ==
    /\ pc = "overflow"
    /\ target = Name(<<"Ping">>)
    /\ Len(stack) = MaxDepth
    /\ report = NoReport
    /\ stack[MaxDepth].tree = templates[<<"pong">>]
    /\ stack[MaxDepth - 1].tree = templates[<<"ping">>]


\* The step the running call takes next.
StepOf(m, ctx) ==
    CASE Top(m).phase = "check"     -> Checked(m, Top(m), ctx)
      [] Top(m).phase = "replace"   -> ReplaceOnce(m, Top(m), FirstTemplate(Top(m).tree), ctx)
      [] Top(m).phase = "branch"    -> Branch(m, Top(m), ctx)
      [] Top(m).phase = "loopcheck" -> TableLoop(m, Top(m), ctx)
      [] OTHER                      -> ReparseTableCells(m, Top(m), ctx)

\* The call, run to its end.
RECURSIVE RunToEnd(_, _)
RunToEnd(m, ctx) == IF m.pc # "run" THEN m ELSE RunToEnd(StepOf(m, ctx), ctx)

\* The same call made with an empty cache.
FromEmptyCache ==
    RunToEnd(Enter([loads |-> EmptyMap, lookups |-> {}, pc |-> "run",
                    stack |-> <<>>, result |-> NoNode, report |-> NoReport,
                    cache |-> EmptyMap],
                   target, parameters, context),
             context)

\* C18: the outcome of a call is the outcome of the same call made with an
\* empty cache, whatever calls were made before it: the same tree when it
\* returns, the same failure when it fails; a step changes neither the store
\* nor an entry the cache holds, and the entries a call adds are those of the
\* call with the empty cache that the cache did not hold yet.
C18_PureApartFromCache ==
    /\ [](Returned => (FromEmptyCache.pc = "done" /\ result = FromEmptyCache.result))
    /\ [](Panicked => (pc = FromEmptyCache.pc /\ report = FromEmptyCache.report))
    /\ []((Returned \/ Panicked) =>
            /\ DOMAIN FromEmptyCache.cache \subseteq DOMAIN templates
            /\ \A k \in DOMAIN FromEmptyCache.cache :
                    templates[k] = FromEmptyCache.cache[k])
    /\ [][/\ store' = store
          /\ \A k \in DOMAIN templates :
                k \in DOMAIN templates' /\ templates'[k] = templates[k]
          /\ \A k \in DOMAIN templates' \ DOMAIN templates : k \in lookups']_vars

\* Greeting returns from a call made with a cache that an earlier call of
\* Wrapper filled.
C18_Witness ==
    /\ Returned
    /\ target = Name(<<"Greeting">>)
    /\ parameters # <<>>
    /\ <<"wrapper">> \in DOMAIN templates
    /\ loads[<<"greeting">>] = 1
    /\ result = FromEmptyCache.result


\* The places of the arguments whose name is the given name, letter for letter.
Matches(params, name) == {k \in DOMAIN params : params[k].name = name}

\* An argument has the name but for the case of its letters, and none has it
\* letter for letter.
OnlyCaseMatches(params, name) ==
    /\ Matches(params, name) = {}
    /\ \E k \in DOMAIN params : EqIgnoreAsciiCase(params[k].name, name)

\* C19: a substitution pass replaces a placeholder by the value of the
\* earliest argument that has the placeholder's name letter for letter, also
\* when later arguments have the name too; an argument whose name differs in
\* letter case does not bind the placeholder, which gets its default, or
\* nothing.
C19_FirstMatchCaseSensitive ==
    PassDone =>
        \A p \in PlaceholdersOf(Frame.before) :
            /\ Matches(Frame.parameters, NodeAt(Frame.before, p).name) # {} =>
                \E k \in Matches(Frame.parameters, NodeAt(Frame.before, p).name) :
                    /\ \A j \in Matches(Frame.parameters, NodeAt(Frame.before, p).name) :
                            k <= j
                    /\ NodeAt(Frame.tree, p) = Text(Frame.parameters[k].value)
            /\ (/\ OnlyCaseMatches(Frame.parameters, NodeAt(Frame.before, p).name)
                /\ ~IsMagic(NodeAt(Frame.before, p).name)) =>
                NodeAt(Frame.tree, p) =
                    Text(IF NodeAt(Frame.before, p).hasDefault
                         THEN DefaultText(Frame.before, p) ELSE <<>>)

\* The list holds Name, then name twice: the placeholder name got the value
\* of the first argument called name, not that of Name and not the later one.
C19_Witness ==
    /\ PassDone
    /\ Len(Frame.parameters) = 3
    /\ Frame.parameters[1].name = <<"Name">>
    /\ Cardinality(Matches(Frame.parameters, <<"name">>)) = 2
    /\ \E p \in PlaceholdersOf(Frame.before) :
            /\ NodeAt(Frame.before, p).name = <<"name">>
            /\ NodeAt(Frame.tree, p) = Text(<<"Ada">>)


\* The text a pass puts in the place of the placeholder at p: the argument's
\* value or the serialized default (the magic value and the empty text hold
\* no markup).
Substituted(tree, params, p) ==
    IF Bound(params, NodeAt(tree, p).name) THEN FirstValue(params, NodeAt(tree, p).name)
    ELSE IF ~IsMagic(NodeAt(tree, p).name) /\ NodeAt(tree, p).hasDefault
         THEN DefaultText(tree, p)
    ELSE <<>>

\* The placeholders whose value or default holds an invocation or a
\* placeholder.
WithInvocation(tree, params) ==
    {p \in PlaceholdersOf(tree) : Contains(Substituted(tree, params, p), "{{")}

\* C20: at the end of a pass, a value or default that holds a template
\* invocation or a placeholder stands in the tree as one Text node with that
\* text, unexpanded, and the pass made no call for it; on the non-table path
\* the roundtrip then gives a tree in which it is a node again, for the pass
\* of the call that follows.
C20_ValuesOpaqueWithinPass ==
    /\ [](PassDone =>
            \A p \in WithInvocation(Frame.before, Frame.parameters) :
                NodeAt(Frame.tree, p) =
                    Text(Substituted(Frame.before, Frame.parameters, p)))
    /\ [][(/\ Running /\ Frame.phase = "branch" /\ ~ContainsTable(Frame.tree)
           /\ WithInvocation(Frame.before, Frame.parameters) # {}
           /\ pc' = "run")
          => (/\ Len(stack') = Len(stack) + 1
              /\ FurtherInstantiationRequired(stack'[Len(stack')].tree)
              /\ ~FurtherInstantiationRequired(stack'[Len(stack)].tree))]_vars

\* Echo with x = {{Greeting}}: the first call's tree holds the invocation as
\* text, the call on the re-parsed tree holds it as a Template node.
C20_Witness ==
    /\ Running
    /\ Len(stack) = 2
    /\ target = Name(<<"Echo">>)
    /\ stack[1].wait.kind = "tail"
    /\ stack[1].tree = Fragment(<<Text(<<"{{", "Greeting", "}}">>)>>)
    /\ stack[2].phase = "check"
    /\ stack[2].tree = Fragment(<<Template(<<"Greeting">>, <<>>)>>)


\* The paths to the tables of a tree that sit at the top level, in a Fragment
\* or in a formatting wrapper, at any depth.
RECURSIVE ContainerTablePaths(_)
ContainerTablePaths(node) ==
    CASE node.type = "Table" -> {<<>>}
      [] node.type \in {"Fragment", "Bold"} ->
            UNION { { <<i>> \o p : p \in ContainerTablePaths(node.children[i]) } :
                    i \in DOMAIN node.children }
      [] OTHER -> {}

\* The fix-up of the running call has come to its end.
FixupDone == Running /\ Frame.phase = "fixup" /\ Frame.cells = <<>>

\* The call reparse_table_cells makes for a cell, run to its end.
CellCall(parsed) ==
    RunToEnd(Enter([loads |-> loads, lookups |-> lookups, pc |-> "run",
                    stack |-> <<>>, result |-> NoNode, report |-> NoReport,
                    cache |-> templates],
                   Node(Fragment(parsed.nodes)), <<>>, context),
             context)

\* What the fix-up makes of a cell's content: the re-parse of its
\* serialization, expanded, when the serialization holds markup and the
\* parser gives nodes for it; the content itself otherwise.
FixedUp(content) ==
    IF /\ HasMarkup(ToWikitext(Fragment(content)))
       /\ ParseAndSimplifyWikitext(ToWikitext(Fragment(content))).ok
       /\ ParseAndSimplifyWikitext(ToWikitext(Fragment(content))).nodes # <<>>
    THEN CellContent(CellCall(
            ParseAndSimplifyWikitext(ToWikitext(Fragment(content)))).result)
    ELSE content

\* The cells of the tables at the paths have been fixed up: the frame holds
\* the tree as the loop left it (before) and as the fix-up left it (tree).
CellsFixedUp(paths) ==
    \A p \in paths :
        \A j \in DOMAIN TableAt(Frame.before, p).rows :
            \A c \in DOMAIN TableAt(Frame.before, p).rows[j].cells :
                TableAt(Frame.tree, p).rows[j].cells[c].content =
                    FixedUp(TableAt(Frame.before, p).rows[j].cells[c].content)

\* C21: when the fix-up of a call ends, every cell of every table of the
\* tree, also of a table inside a formatting wrapper, has been fixed up: a
\* cell whose serialization holds a link delimiter, an emphasis marker or
\* template braces holds the re-parse of it, any other cell its old content.
C21_EveryCellFixedUp ==
    FixupDone => CellsFixedUp(ContainerTablePaths(Frame.before))

\* The same for the tables reparse_table_cells comes to: the tree itself or a
\* table reached from it through fragments only.
C21_CellsThroughFragments ==
    FixupDone => CellsFixedUp(TablePaths(Frame.before))


\* The call instantiate(name, parameters, context) of a Template node, run to
\* its end.
NestedCall(node) ==
    RunToEnd(Enter([loads |-> EmptyMap, lookups |-> {}, pc |-> "run",
                    stack |-> <<>>, result |-> NoNode, report |-> NoReport,
                    cache |-> EmptyMap],
                   Name(node.name), node.parameters, context),
             context)

\* What stands in the place of the Template node: the only child of a
\* Fragment that has one child, the result itself in every other case.
Inserted(r) ==
    IF r.type = "Fragment" /\ Len(r.children) = 1 THEN r.children[1] ELSE r

\* The tree with the Template node at the path replaced.
WithResult(tree, path) ==
    PutAt(tree, path, Done(Inserted(NestedCall(NodeAt(tree, path)).result)))

\* C22: when the nested call of a Template node returns, at once or after
\* steps of its own, the node is replaced by the result of
\* instantiate(name, parameters, context): by its child when the result is a
\* Fragment with exactly one child, by the result as it is otherwise; nothing
\* else of the tree changes.
C22_SingleChildUnwrapped ==
    [][/\ \A d \in 1..(Len(stack) - 1) :
            (stack[d].wait.kind = "template" /\ pc' = "run" /\ Len(stack') = d) =>
                /\ NestedCall(NodeAt(stack[d].tree, stack[d].wait.at)).pc = "done"
                /\ stack'[d].tree = WithResult(stack[d].tree, stack[d].wait.at)
       /\ (AtTemplate /\ pc' = "run" /\ Len(stack') = Len(stack)) =>
                stack'[Len(stack)].tree =
                    WithResult(Frame.tree, FirstTemplate(Frame.tree).path)]_vars

\* Pair invokes three templates: the result with two children and the result
\* with none stand in the tree as they are, the result with one child as
\* that child.
C22_Witness ==
    /\ Running
    /\ Len(stack) = 1
    /\ target = Name(<<"Pair">>)
    /\ Frame.phase = "replace"
    /\ Frame.tree.type = "Fragment"
    /\ Len(Frame.tree.children) = 4
    /\ Frame.tree.children[1] =
            Done(Fragment(<<Text(<<"a">>), Bold(<<Text(<<"b">>)>>)>>))
    /\ Frame.tree.children[2] = Done(Fragment(<<>>))
    /\ Frame.tree.children[3] = Done(Text(<<"single">>))


\* The text a pass gives a placeholder that the arguments of its own call do
\* not bind.
UnboundText(tree, p) ==
    IF IsMagic(NodeAt(tree, p).name) THEN context
    ELSE IF NodeAt(tree, p).hasDefault THEN DefaultText(tree, p)
    ELSE <<>>

\* C23: the call made for a Template node has the argument list written at
\* that node and nothing else; no step changes the argument list of a call in
\* progress; so at the end of a pass a placeholder that the arguments of its
\* own call do not bind holds the magic value, its default or nothing,
\* whatever the arguments of the enclosing calls and of the nested calls are.
C23_ArgumentsScopedToInvocation ==
    /\ [][Running =>
            \A d \in DOMAIN stack \cap DOMAIN stack' :
                stack'[d].parameters = stack[d].parameters]_vars
    /\ [][(AtTemplate /\ pc' = "run" /\ Len(stack') = Len(stack) + 1) =>
            stack'[Len(stack')].parameters =
                NodeAt(Frame.tree, FirstTemplate(Frame.tree).path).parameters]_vars
    /\ [](PassDone =>
            \A p \in PlaceholdersOf(Frame.before) :
                ~Bound(Frame.parameters, NodeAt(Frame.before, p).name) =>
                    NodeAt(Frame.tree, p) = Text(UnboundText(Frame.before, p)))

\* A nested call ends its pass: its placeholder, which an argument of the
\* enclosing call names and no argument of its own, holds its default.
C23_Witness ==
    /\ PassDone
    /\ Len(stack) = 2
    /\ stack[1].wait.kind = "template"
    /\ Frame.parameters # <<>>
    /\ \E p \in PlaceholdersOf(Frame.before) :
            /\ Bound(stack[1].parameters, NodeAt(Frame.before, p).name)
            /\ ~Bound(Frame.parameters, NodeAt(Frame.before, p).name)
            /\ NodeAt(Frame.before, p).hasDefault
            /\ NodeAt(Frame.tree, p) = Text(<<"single">>)
====
